---- MODULE Spec2Model ----
(***************************************************************************)
(* Model of app/main.py: the keyword matcher (search_knowledge), the       *)
(* response composer (generate_response), the chat handler and the CRUD,   *)
(* store-info and import handlers over the persisted knowledge document.   *)
(*                                                                         *)
(* A Python str is a sequence of one-character strings, so that lower(),   *)
(* re.sub, split() and the substring test "word in text" are computed      *)
(* character by character.  A composed response is a sequence of pieces    *)
(* whose concatenation is the Python string: the literal pieces of the     *)
(* f-strings are kept whole, the interpolated fields are spelled character *)
(* by character.  Non-ASCII glyphs of the literals (emoji, the bullet) are  *)
(* written as ASCII names.                                                 *)
(***************************************************************************)
EXTENDS Integers, Sequences, FiniteSets, TLC

VARIABLES file, clock, last

vars == <<file, clock, last>>

(***************************************************************************)
(* Characters and the str methods the code uses.                           *)
(***************************************************************************)
UpperChars ==
    <<"A","B","C","D","E","F","G","H","I","J","K","L","M",
      "N","O","P","Q","R","S","<<",">>U","V","W","X","Y","Z">>

LowerChars ==
    <<"a","b","c","d","e","f","g","h","i","j","k","l","m",
      "n","o","p","q","r","s","t","u","v","w","x","y","z">>

DigitChars == <<"0","1","2","3","4","5","6","7","8","9">>

Range(s) == {s[i] : i \in DOMAIN s}

\* str.lower() on one character.
lower_map ==
    [c \in Range(UpperChars) |->
        LowerChars[CHOOSE i \in DOMAIN UpperChars : UpperChars[i] = c]]

LowerChar(c) == IF c \in DOMAIN lower_map THEN lower_map[c] ELSE c

\* str.lower()
Lower(s) == [i \in DOMAIN s |-> LowerChar(s[i])]

IsAlnum(c) == c \in Range(UpperChars) \cup Range(LowerChars) \cup Range(DigitChars)

\* The regular expression class \w: alphanumerics and the underscore.
IsWordChar(c) == IsAlnum(c) \/ c = "_"

\* The regular expression class \s.
IsSpace(c) == c \in {" ", "\t", "\n", "\r"}

\* re.sub(r'[^\w\s]', '', s)
StripPunct(s) == SelectSeq(s, LAMBDA c : IsWordChar(c) \/ IsSpace(c))

RECURSIVE SplitFrom(_, _, _)
SplitFrom(s, i, cur) ==
    IF i > Len(s)
    THEN IF cur = <<>> THEN {} ELSE {cur}
    ELSE IF IsSpace(s[i])
         THEN (IF cur = <<>> THEN {} ELSE {cur}) \cup SplitFrom(s, i + 1, <<>>)
         ELSE SplitFrom(s, i + 1, Append(cur, s[i]))

\* set(s.split())
SplitSet(s) == SplitFrom(s, 1, <<>>)

\* word in text
Contains(text, word) ==
    \E i \in 1..(Len(text) - Len(word) + 1) : SubSeq(text, i, i + Len(word) - 1) = word

\* any(word in text for word in words)
AnyIn(words, text) == \E w \in words : Contains(text, w)

RECURSIVE JoinWith(_, _)
\* sep.join(parts)
JoinWith(sep, parts) ==
    IF parts = <<>> THEN <<>>
    ELSE IF Len(parts) = 1 THEN parts[1]
         ELSE parts[1] \o sep \o JoinWith(sep, Tail(parts))

(***************************************************************************)
(* Python values.  None is written with one marker per static type, so     *)
(* that it can be told from every value of that type.                      *)
(***************************************************************************)
NoneStr == <<"None">>

NoneList == << <<"None">> >>

NoneDict == [none_ |-> TRUE]

EmptyDict == [k \in {} |-> <<>>]

\* d.get(k, default)
Get(d, k, default) == IF k \in DOMAIN d THEN d[k] ELSE default

\* f"{x}" for a str or None
Str(x) == IF x = NoneStr THEN <<"N","o","n","e">> ELSE x

\* bool(x) for a str or None, a list or None, a dict or None
TruthyStr(x) == x # NoneStr /\ x # <<>>

TruthyList(x) == x # NoneList /\ x # <<>>

TruthyDict(d) == "none_" \notin DOMAIN d /\ DOMAIN d # {}

(***************************************************************************)
(* The keyword sets of the matcher and the composer.                       *)
(***************************************************************************)
\* search_knowledge: stop_words (line 113).
stop_words ==
    {<<"a">>, <<"a","n">>, <<"t","h","e">>, <<"i","s">>, <<"a","r","e">>, <<"d","o">>,
     <<"d","o","e","s">>, <<"w","h","a","t">>, <<"h","o","w">>, <<"c","a","n">>, <<"i">>,
     <<"y","o","u">>, <<"y","o","u","r">>, <<"m","y">>, <<"m","e">>, <<"w","e">>, <<"u","s">>,
     <<"t","o">>, <<"f","o","r">>, <<"o","f">>, <<"i","n">>, <<"o","n">>, <<"a","t">>,
     <<"w","i","t","h">>, <<"h","a","v","e">>, <<"h","a","s">>, <<"a","n","y">>,
     <<"s","o","m","e">>, <<"a","l","l">>, <<"t","h","i","s">>, <<"t","h","a","t">>,
     <<"t","h","e","s","e">>, <<"t","h","o","s","e">>}

\* search_knowledge: greeting_words (line 117).
greeting_words ==
    {<<"h","i">>, <<"h","e","l","l","o">>, <<"h","e","y">>,
     <<"g","r","e","e","t","i","n","g","s">>, <<"g","o","o","d">>,
     <<"m","o","r","n","i","n","g">>, <<"a","f","t","e","r","n","o","o","n">>,
     <<"e","v","e","n","i","n","g">>}

\* search_knowledge: store_keywords (line 123).
store_keywords ==
    {<<"s","t","o","r","e">>, <<"s","h","o","p">>, <<"a","b","o","u","t">>,
     <<"c","o","n","t","a","c","t">>, <<"e","m","a","i","l">>, <<"p","h","o","n","e">>,
     <<"w","h","o">>, <<"c","o","m","p","a","n","y">>}

\* search_knowledge: product_query_keywords (line 128).
product_query_keywords ==
    {<<"p","r","o","d","u","c","t">>, <<"p","r","o","d","u","c","t","s">>, <<"i","t","e","m">>,
     <<"i","t","e","m","s">>, <<"b","u","y">>, <<"s","e","l","l">>,
     <<"s","e","l","l","i","n","g">>, <<"o","f","f","e","r">>, <<"c","a","t","a","l","o","g">>,
     <<"c","a","t","a","l","o","g","u","e">>, <<"i","n","v","e","n","t","o","r","y">>,
     <<"m","e","r","c","h","a","n","d","i","s","e">>}

\* search_knowledge: the price-related word set (line 151).
price_keywords ==
    {<<"p","r","i","c","e">>, <<"c","o","s","t">>, <<"m","u","c","h">>,
     <<"e","x","p","e","n","s","i","v","e">>, <<"c","h","e","a","p">>}

\* search_knowledge: faq_keywords (line 155).
faq_keywords ==
    {<<"s","h","i","p","p","i","n","g">>, <<"s","h","i","p">>,
     <<"d","e","l","i","v","e","r","y">>, <<"d","e","l","i","v","e","r">>,
     <<"r","e","t","u","r","n">>, <<"r","e","f","u","n","d">>,
     <<"e","x","c","h","a","n","g","e">>, <<"w","a","r","r","a","n","t","y">>,
     <<"g","u","a","r","a","n","t","e","e">>, <<"p","a","y","m","e","n","t">>, <<"p","a","y">>,
     <<"o","r","d","e","r">>, <<"t","r","a","c","k">>, <<"t","r","a","c","k","i","n","g">>}

\* search_knowledge: policy_keywords (line 165).
policy_keywords ==
    {<<"s","h","i","p","p","i","n","g">>, <<"r","e","t","u","r","n">>,
     <<"r","e","f","u","n","d">>, <<"p","o","l","i","c","y">>,
     <<"p","o","l","i","c","i","e","s">>, <<"d","e","l","i","v","e","r","y">>,
     <<"e","x","c","h","a","n","g","e">>, <<"w","a","r","r","a","n","t","y">>,
     <<"g","u","a","r","a","n","t","e","e">>, <<"t","e","r","m","s">>,
     <<"p","r","i","v","a","c","y">>}

\* generate_response: its own greeting_words (line 191).
response_greeting_words ==
    {<<"h","i">>, <<"h","e","l","l","o">>, <<"h","e","y">>,
     <<"g","r","e","e","t","i","n","g","s">>}

\* generate_response: non_greeting_keywords (line 192).
non_greeting_keywords ==
    {<<"s","h","i","p","p","i","n","g">>, <<"r","e","t","u","r","n">>,
     <<"p","r","o","d","u","c","t">>, <<"p","r","i","c","e">>, <<"p","o","l","i","c","y">>,
     <<"o","r","d","e","r">>, <<"b","u","y">>, <<"h","e","l","p">>,
     <<"s","u","p","p","o","r","t">>}

(***************************************************************************)
(* search_knowledge                                                        *)
(***************************************************************************)
\* The word set both functions compute from the query (lines 101-111, 185-187).
query_words(query) == SplitSet(StripPunct(Lower(query)))

\* meaningful_words = query_words - stop_words
meaningful_words(query) == query_words(query) \ stop_words

\* product_text: name, description, category and the joined features, lowercased.
product_text(product) ==
    Lower(product.name \o <<" ">> \o product.description \o <<" ">>
          \o Str(Get(product, "category", <<>>)) \o <<" ">>
          \o JoinWith(<<" ">>, Get(product, "features", <<>>)))

\* ' '.join(None) raises TypeError.
product_text_raises(product) == Get(product, "features", <<>>) = NoneList

faq_text(faq) ==
    Lower(faq.question \o <<" ">> \o faq.answer \o <<" ">> \o Str(Get(faq, "category", <<>>)))

policy_text(policy) ==
    Lower(policy.title \o <<" ">> \o policy.content \o <<" ">> \o Str(Get(policy, "type", <<>>)))

knowledge_text(knowledge) ==
    Lower(knowledge.title \o <<" ">> \o knowledge.content \o <<" ">>
          \o JoinWith(<<" ">>, Get(knowledge, "keywords", <<>>)))

knowledge_text_raises(knowledge) == Get(knowledge, "keywords", <<>>) = NoneList

\* The results dict as created at lines 103-109.
NewResults ==
    [products |-> <<>>, faqs |-> <<>>, policies |-> <<>>, custom_knowledge |-> <<>>,
     store_info |-> NoneDict]

\* results["store_info"] = memory.get("store_info") on a store keyword or a greeting.
search_store_info(memory, qw) ==
    IF qw \cap store_keywords # {} \/ qw \cap greeting_words # {}
    THEN Get(memory, "store_info", NoneDict)
    ELSE NoneDict

\* Lines 132-136: a general product query binds results["products"] to
\* memory.get("products", []).
is_general_product_query(qw, mw) ==
    qw \cap product_query_keywords # {} /\ mw \ product_query_keywords = {}

\* The products the loops of lines 139-142 and 145-152 append to results["products"],
\* in order; the general product query runs neither loop.
appended_products(memory, qw, mw) ==
    IF qw \cap product_query_keywords # {}
    THEN IF mw \ product_query_keywords = {}
         THEN <<>>
         ELSE SelectSeq(Get(memory, "products", <<>>),
                  LAMBDA p : AnyIn(mw \ product_query_keywords, product_text(p)))
    ELSE SelectSeq(Get(memory, "products", <<>>),
             LAMBDA p : \/ mw # {} /\ AnyIn(mw, product_text(p))
                        \/ qw \cap price_keywords # {})

\* search_products with lines 132-136 left out: a general product query matches by
\* terms only.  A fault C3 must detect.
search_products_by_terms_only(memory, qw, mw) == appended_products(memory, qw, mw)

\* results["products"] when search_knowledge returns.
search_products(memory, qw, mw) ==
    (IF is_general_product_query(qw, mw) THEN Get(memory, "products", <<>>) ELSE <<>>)
        \o appended_products(memory, qw, mw)

search_products_raises(memory, qw, mw) ==
    /\ ~is_general_product_query(qw, mw)
    /\ \E i \in DOMAIN Get(memory, "products", <<>>) :
           product_text_raises(memory.products[i])

\* Lines 154-162.
search_faqs(memory, qw, mw) ==
    SelectSeq(Get(memory, "faqs", <<>>),
        LAMBDA faq : \/ mw # {} /\ AnyIn(mw, faq_text(faq))
                     \/ /\ qw \cap faq_keywords # {}
                        /\ AnyIn(qw \cap faq_keywords, faq_text(faq)))

\* Lines 164-171.
search_policies(memory, qw, mw) ==
    SelectSeq(Get(memory, "policies", <<>>),
        LAMBDA policy : \/ mw # {} /\ AnyIn(mw, policy_text(policy))
                        \/ /\ qw \cap policy_keywords # {}
                           /\ AnyIn(qw \cap policy_keywords, policy_text(policy)))

\* Lines 173-177.
search_custom_knowledge(memory, qw, mw) ==
    SelectSeq(Get(memory, "custom_knowledge", <<>>),
        LAMBDA knowledge : mw # {} /\ AnyIn(mw, knowledge_text(knowledge)))

search_custom_knowledge_raises(memory) ==
    \E i \in DOMAIN Get(memory, "custom_knowledge", <<>>) :
        knowledge_text_raises(memory.custom_knowledge[i])

\* The document object as search_knowledge leaves it.  The FAQ, policy and custom
\* lists of the results are fresh lists; results["products"] is the document's own
\* list object after a general product query with a products key, and an append to
\* it is an append to the document.
memory_after_search(memory, qw, mw) ==
    IF is_general_product_query(qw, mw) /\ "products" \in DOMAIN memory
    THEN [memory EXCEPT !.products = @ \o appended_products(memory, qw, mw)]
    ELSE memory

\* search_knowledge(query, memory): raised, or the results dict; memory is the
\* document object as the call leaves it.
search_knowledge(query, memory) ==
    LET qw == query_words(query)
        mw == qw \ stop_words
    IN  IF search_products_raises(memory, qw, mw) \/ search_custom_knowledge_raises(memory)
        THEN [raised |-> TRUE, results |-> NewResults, memory |-> memory]
        ELSE [raised |-> FALSE,
              results |-> [products |-> search_products(memory, qw, mw),
                           faqs |-> search_faqs(memory, qw, mw),
                           policies |-> search_policies(memory, qw, mw),
                           custom_knowledge |-> search_custom_knowledge(memory, qw, mw),
                           store_info |-> search_store_info(memory, qw)],
              memory |-> memory_after_search(memory, qw, mw)]

(***************************************************************************)
(* generate_response                                                       *)
(***************************************************************************)
Min(a, b) == IF a < b THEN a ELSE b

\* s[:n]
Take(s, n) == SubSeq(s, 1, Min(n, Len(s)))

RECURSIVE Digits(_)
\* str(n) for a natural number
Digits(n) == IF n < 10 THEN <<DigitChars[n + 1]>>
             ELSE Digits(n \div 10) \o <<DigitChars[(n % 10) + 1]>>

\* f"{price:.2f}" for a price of whole cents (price is held in cents).
Fmt2(price) ==
    Digits(price \div 100) \o <<".">> \o <<DigitChars[((price \div 10) % 10) + 1]>>
        \o <<DigitChars[(price % 10) + 1]>>

\* The section limits of the slices [:5], [:3], [:2], [:2] (lines 221, 229, 237, 245).
ProductLimit == 5

FaqLimit == 3

PolicyLimit == 2

KnowledgeLimit == 2

\* "\n".join(response_parts)
JoinLines(parts) == JoinWith(<<"\n">>, parts)

\* Lines 196-202: the canned welcome.
greeting_response(memory) ==
    LET store_name == Get(Get(memory, "store_info", EmptyDict), "name", <<"o","u","r"," ","s","t","o","r","e">>)
    IN  JoinLines(<<
            <<"Hello! Welcome to ">> \o store_name
                \o <<"! [wave] How can I help you today? I can assist you with:">>,
            <<"[bullet] Product information and recommendations">>,
            <<"[bullet] Pricing and availability">>,
            <<"[bullet] Shipping and return policies">>,
            <<"[bullet] General questions about our store">> >>)

\* Lines 207-218: the single-product card.
product_card(p) ==
    << <<"**">> \o p.name \o <<"**">>,
       <<"[memo] ">> \o p.description,
       <<"[money] Price: R">> \o Fmt2(p.price) >>
    \o (IF TruthyStr(Get(p, "category", NoneStr))
        THEN << <<"[folder] Category: ">> \o p.category >> ELSE <<>>)
    \o (IF TruthyList(Get(p, "features", NoneList))
        THEN << <<"[sparkles] Features:">> >>
             \o [i \in DOMAIN p.features |-> <<"  [bullet] ">> \o p.features[i]]
        ELSE <<>>)
    \o << IF Get(p, "in_stock", TRUE) THEN <<"[check] In Stock">>
          ELSE <<"[cross] Out of Stock">> >>

\* Lines 220-223: the multi-product list.
product_list(products) ==
    << <<"Here are some products that might interest you:">> >>
    \o [i \in DOMAIN Take(products, ProductLimit) |->
           <<"[bullet] **">> \o products[i].name \o <<"** - R">> \o Fmt2(products[i].price)
               \o (IF Get(products[i], "in_stock", TRUE)
                   THEN <<" [check]">> ELSE <<" [cross]">>)]

\* Lines 205-223.
product_parts(products) ==
    IF products = <<>> THEN <<>>
    ELSE IF Len(products) = 1 THEN product_card(products[1])
         ELSE product_list(products)

\* Two lines per entry of entries, in order.
TwoLines(entries, first(_), second(_)) ==
    [i \in 1..(2 * Len(entries)) |->
        IF i % 2 = 1 THEN first(entries[(i + 1) \div 2]) ELSE second(entries[i \div 2])]

\* faq_parts with the slice [:3] of line 229 left out.  A fault C4 must detect.
faq_parts_unsliced(faqs) ==
    [i \in 1..(2 * Len(faqs)) |->
        IF i % 2 = 1 THEN <<"**Q: ">> \o faqs[(i + 1) \div 2].question \o <<"**">>
        ELSE <<"A: ">> \o faqs[i \div 2].answer]

\* Lines 229-231.
faq_parts(faqs) ==
    TwoLines(Take(faqs, FaqLimit),
             LAMBDA faq : <<"**Q: ">> \o faq.question \o <<"**">>,
             LAMBDA faq : <<"A: ">> \o faq.answer)

\* Lines 237-239.
policy_parts(policies) ==
    TwoLines(Take(policies, PolicyLimit),
             LAMBDA policy : <<"**">> \o policy.title \o <<"**">>,
             LAMBDA policy : policy.content)

\* Lines 245-247.
knowledge_parts(entries) ==
    TwoLines(Take(entries, KnowledgeLimit),
             LAMBDA knowledge : <<"**">> \o knowledge.title \o <<"**">>,
             LAMBDA knowledge : knowledge.content)

\* The sections that rendered something, with the separator line between two of
\* them (lines 227-228, 235-236, 243-244).
JoinSections(sections) ==
    JoinWith(<< <<"\n---\n">> >>, SelectSeq(sections, LAMBDA section : section # <<>>))

\* Lines 251-258.
store_info_parts(info) ==
    << <<"**">> \o Get(info, "name", <<"O","u","r"," ","S","t","o","r","e">>) \o <<"**">> >>
    \o (IF TruthyStr(Get(info, "description", NoneStr)) THEN <<info.description>> ELSE <<>>)
    \o (IF TruthyStr(Get(info, "contact_email", NoneStr))
        THEN << <<"[mail] Email: ">> \o info.contact_email >> ELSE <<>>)
    \o (IF TruthyStr(Get(info, "contact_phone", NoneStr))
        THEN << <<"[phone] Phone: ">> \o info.contact_phone >> ELSE <<>>)

\* default_parts reading the contact email with no default (line 262).  A fault C5
\* must detect.
default_parts_no_default(memory) ==
    LET contact_email == Get(Get(memory, "store_info", EmptyDict), "contact_email", <<>>)
    IN  << <<"I'm sorry, I couldn't find specific information about that in my knowledge base.">>,
           <<"Here's what I can help you with:">>,
           <<"[bullet] Product information and pricing">>,
           <<"[bullet] Shipping and delivery questions">>,
           <<"[bullet] Return and refund policies">>,
           <<"[bullet] General store inquiries">>,
           <<"\nFor more specific questions, please contact us at ">> \o contact_email >>

\* Lines 262-270.
default_parts(memory) ==
    LET contact_email ==
            Get(Get(memory, "store_info", EmptyDict), "contact_email", <<"s","u","p","p","o","r","t","@","s","t","o","r","e",".","c","o","m">>)
    IN  << <<"I'm sorry, I couldn't find specific information about that in my knowledge base.">>,
           <<"Here's what I can help you with:">>,
           <<"[bullet] Product information and pricing">>,
           <<"[bullet] Shipping and delivery questions">>,
           <<"[bullet] Return and refund policies">>,
           <<"[bullet] General store inquiries">>,
           <<"\nFor more specific questions, please contact us at ">> \o contact_email >>

\* is_pure_greeting with the "and not has_non_greeting" of line 193 left out.  A
\* fault C2 must detect.
is_pure_greeting_any_greeting(query) ==
    query_words(query) \cap response_greeting_words # {}

\* Lines 190-193: the pure-greeting test of the composer.
is_pure_greeting(query) ==
    /\ query_words(query) \cap response_greeting_words # {}
    /\ query_words(query) \cap non_greeting_keywords = {}

\* Lines 204-272: the sections, the store info when there is no section, the
\* default message when there is nothing at all.
compose_sections(search_results, memory) ==
    LET sections ==
            JoinSections(<<product_parts(search_results.products),
                           faq_parts(search_results.faqs),
                           policy_parts(search_results.policies),
                           knowledge_parts(search_results.custom_knowledge)>>)
        with_store ==
            IF TruthyDict(search_results.store_info) /\ sections = <<>>
            THEN store_info_parts(search_results.store_info)
            ELSE sections
    IN  JoinLines(IF with_store = <<>> THEN default_parts(memory) ELSE with_store)

\* generate_response with the early return of lines 195-202 left out.  A fault C1
\* must detect.
generate_response_no_early_return(query, search_results, memory) ==
    compose_sections(search_results, memory)

generate_response(query, search_results, memory) ==
    IF is_pure_greeting(query) THEN greeting_response(memory)
    ELSE compose_sections(search_results, memory)

(***************************************************************************)
(* The persisted document and the chat handler.                            *)
(***************************************************************************)
\* memory.json: missing until the first save.
NoFile == [exists |-> FALSE, data |-> EmptyDict]

Saved(memory) == [exists |-> TRUE, data |-> memory]

\* The document load_memory returns when there is no file (lines 31-42).
DefaultMemory ==
    [products |-> <<>>, faqs |-> <<>>, policies |-> <<>>, custom_knowledge |-> <<>>,
     store_info |-> [name |-> <<"M","y"," ","E","-","c","o","m","m","e","r","c","e"," ","S","t","o","r","e">>,
                     description |-> <<"W","e","l","c","o","m","e"," ","t","o"," ","o","u","r"," ","o","n","l","i","n","e"," ","s","t","o","r","e","!">>,
                     contact_email |-> <<"s","u","p","p","o","r","t","@","s","t","o","r","e",".","c","o","m">>,
                     contact_phone |-> <<>>]]

load_memory == IF file.exists THEN file.data ELSE DefaultMemory

Idle == [op |-> "none", status |-> 0]

\* chat saving the document after the search.  A fault C8 must detect.
chat_saving(message) ==
    LET memory == load_memory
        sr == search_knowledge(message, memory)
    IN  /\ last' = [op |-> "chat", query |-> message, before |-> file,
                    status |-> IF sr.raised THEN 500 ELSE 200,
                    results |-> sr.results,
                    memory |-> sr.memory,
                    response |-> IF sr.raised THEN <<>>
                                 ELSE generate_response(message, sr.results, sr.memory)]
        /\ file' = Saved(sr.memory)
        /\ UNCHANGED clock

\* POST /api/chat: load, search, compose; nothing is saved.  A raised exception is
\* the framework's 500 response.
chat(message) ==
    LET memory == load_memory
        sr == search_knowledge(message, memory)
    IN  /\ last' = [op |-> "chat", query |-> message, before |-> file,
                    status |-> IF sr.raised THEN 500 ELSE 200,
                    results |-> sr.results,
                    memory |-> sr.memory,
                    response |-> IF sr.raised THEN <<>>
                                 ELSE generate_response(message, sr.results, sr.memory)]
        /\ UNCHANGED <<file, clock>>

(***************************************************************************)
(* Inputs: queries and documents.                                          *)
(***************************************************************************)
\* Longest query, in pieces.
MaxPieces == 2

\* Most entries of one category in a document.
MaxEntries == 6

Pieces ==
    {<<"h","i">>, <<"g","o","o","d">>, <<"t","h","e">>, <<"r","e","t","u","r","n">>, <<"p","r","o","d","u","c","t","s">>, <<"c","o","s","t">>, <<"m","u","g">>, <<" ">>, <<"_">>}

RECURSIVE PieceSeqs(_)
PieceSeqs(n) ==
    IF n = 0 THEN {<<>>}
    ELSE LET shorter == PieceSeqs(n - 1)
         IN  shorter \cup {q \o p : q \in shorter, p \in Pieces}

ExampleQueries ==
    {<<"h","i",","," ","w","h","a","t","'","s"," ","y","o","u","r"," ","r","e","t","u","r","n"," ","p","o","l","i","c","y","?">>, <<"x","y","z","1","2","3","n","o","n","s","e","n","s","e">>, <<"g","o","o","d"," ","m","o","r","n","i","n","g">>,
     <<"H","E","L","L","O","!">>, <<"W","h","a","t"," ","i","s"," ","t","h","e"," ","p","r","i","c","e","?">>, <<"d","o",",","y","o","u">>, <<"t","h","e"," ","_"," ","o","f">>, <<"a","n","y"," ","p","r","o","d","u","c","t","s","?">>,
     <<"b","u","y"," ","m","u","g">>, <<"h","e","y"," ","s","t","o","r","e">>, <<"s","h","i","p"," ","t","o"," ","m","e">>, <<"h","i"," ","p","r","o","d","u","c","t","s">>, <<"g","o","o","d"," ","m","u","g"," ","p","o","l","i","c","y">>,
     <<"c","o","n","t","a","c","t"," ","e","m","a","i","l">>, <<"h","i"," ","h","e","l","p">>, <<"t","h","e"," ","r","e","t","u","r","n"," ","p","o","l","i","c","y">>, <<"m","u","g"," ","r","e","t","u","r","n"," ","c","o","s","t">>}

Queries == PieceSeqs(MaxPieces) \cup ExampleQueries

ProductAt(i) ==
    CASE i % 3 = 1 -> [id |-> i, name |-> <<"M","u","g">>, description |-> <<"B","l","u","e"," ","c","u","p">>,
                       price |-> 12050, category |-> <<"K","i","t","c","h","e","n">>,
                       features |-> <<<<"H","o","t">>, <<"B","i","g">>>>, in_stock |-> TRUE]
      [] i % 3 = 2 -> [id |-> i, name |-> <<"T","e","a">>, description |-> <<"G","o","o","d"," ","l","e","a","f">>,
                       price |-> 4500]
      [] OTHER     -> [id |-> i, name |-> <<"P","o","t">>, description |-> <<"M","u","g"," ","s","e","t">>,
                       price |-> 999, category |-> <<>>, features |-> <<>>,
                       in_stock |-> FALSE]

FaqAt(i) ==
    IF i % 2 = 1
    THEN [id |-> i, question |-> <<"S","h","i","p","p","i","n","g"," ","c","o","s","t","?">>, answer |-> <<"F","r","e","e">>,
          category |-> <<"d","e","l","i","v","e","r","y">>]
    ELSE [id |-> i, question |-> <<"R","e","t","u","r","n"," ","c","o","s","t","?">>, answer |-> <<"Z","e","r","o">>]

PolicyAt(i) ==
    IF i % 2 = 1
    THEN [id |-> i, title |-> <<"R","e","t","u","r","n"," ","P","o","l","i","c","y">>, content |-> <<"3","0"," ","d","a","y","s">>, type |-> <<"r","e","t","u","r","n">>]
    ELSE [id |-> i, title |-> <<"P","r","i","v","a","c","y">>, content |-> <<"O","u","r"," ","p","o","l","i","c","y",":"," ","n","o"," ","s","p","a","m">>]

KnowledgeAt(i) ==
    IF i % 2 = 1
    THEN [id |-> i, title |-> <<"H","o","u","r","s">>, content |-> <<"O","p","e","n"," ","l","a","t","e">>, keywords |-> <<<<"t","i","m","e">>>>]
    ELSE [id |-> i, title |-> <<"G","i","f","t">>, content |-> <<"M","u","g"," ","w","r","a","p">>]

EntryAt(key, i) ==
    CASE key = "products" -> ProductAt(i)
      [] key = "faqs" -> FaqAt(i)
      [] key = "policies" -> PolicyAt(i)
      [] OTHER -> KnowledgeAt(i)

Categories == {"products", "faqs", "policies", "custom_knowledge"}

Entries(key, n) == [i \in 1..n |-> EntryAt(key, i)]

StoreInfos ==
    {DefaultMemory.store_info, [name |-> <<"A","c","m","e">>], EmptyDict}

\* Every category with n entries and the store info s.
FullDoc(n, s) ==
    [products |-> Entries("products", n), faqs |-> Entries("faqs", n),
     policies |-> Entries("policies", n),
     custom_knowledge |-> Entries("custom_knowledge", n), store_info |-> s]

\* As FullDoc, without the store_info key.
NoStoreDoc(n) ==
    [products |-> Entries("products", n), faqs |-> Entries("faqs", n),
     policies |-> Entries("policies", n),
     custom_knowledge |-> Entries("custom_knowledge", n)]

\* Only the category key, with n entries, and the default store info.
OnlyDoc(key, n) ==
    [k \in {key, "store_info"} |->
        IF k = key THEN Entries(key, n) ELSE DefaultMemory.store_info]

AnswerDocs ==
    {FullDoc(n, s) : n \in 0..MaxEntries, s \in StoreInfos}
        \cup {NoStoreDoc(n) : n \in {0, MaxEntries}}
        \cup {OnlyDoc(key, n) : key \in Categories, n \in {1, MaxEntries}}

(***************************************************************************)
(* SpecAnswer: the answer function (load, search, compose) on every query  *)
(* of Queries and every document of AnswerDocs.                            *)
(***************************************************************************)
InitAnswer ==
    /\ file \in {NoFile} \cup {Saved(d) : d \in AnswerDocs}
    /\ clock = 0
    /\ last = Idle

\* One call per behaviour: the answer is a function of the query and the document.
NextAnswer == last.op = "none" /\ \E message \in Queries : chat(message)

SpecAnswer == InitAnswer /\ [][NextAnswer]_vars

(***************************************************************************)
(* The CRUD, store-info and import handlers.  Each handler runs to its     *)
(* return without awaiting, so it is one step.  An uncaught KeyError is    *)
(* the framework's 500 response; HTTPException(404) is the 404 response.   *)
(***************************************************************************)
\* Latest reading of the wall clock, in microseconds.
MaxClock == 2

\* Most entries in the persisted document, all categories together.
MaxItems == 2

\* generate_id: the local wall-clock time, to the microsecond (line 94).
generate_id == clock

\* The id of a request body that carries none (id: Optional[str] = None).
NoId == 99

TotalEntries(memory) ==
    LET n(key) == IF key \in DOMAIN memory THEN Len(memory[key]) ELSE 0
    IN  n("products") + n("faqs") + n("policies") + n("custom_knowledge")

HasId(entries, entry_id) == \E i \in DOMAIN entries : entries[i].id = entry_id

\* The shape of add_product, add_faq, add_policy and add_knowledge.
AddEntry(op, key, entry) ==
    LET memory == load_memory
        entry_dict == [entry EXCEPT !.id = generate_id]
    IN  /\ clock < MaxClock
        /\ TotalEntries(memory) < MaxItems
        /\ clock' = clock + 1
        /\ IF key \in DOMAIN memory
           THEN /\ file' = Saved([memory EXCEPT ![key] = Append(@, entry_dict)])
                /\ last' = [op |-> op, status |-> 200, id |-> entry_dict.id,
                            missing |-> FALSE]
           ELSE /\ file' = file
                /\ last' = [op |-> op, status |-> 500, id |-> entry_dict.id,
                            missing |-> FALSE]

\* The shape of update_product, update_faq, update_policy and update_knowledge: the
\* first entry with the id is replaced and keeps the id of the path.
UpdateEntry(op, key, entry_id, entry) ==
    LET memory == load_memory
    IN  /\ UNCHANGED clock
        /\ IF key \notin DOMAIN memory
           THEN /\ file' = file
                /\ last' = [op |-> op, status |-> 500, id |-> entry_id, missing |-> TRUE]
           ELSE IF HasId(memory[key], entry_id)
                THEN LET i == CHOOSE i \in DOMAIN memory[key] :
                                  /\ memory[key][i].id = entry_id
                                  /\ \A j \in 1..(i - 1) : memory[key][j].id # entry_id
                     IN  /\ file' = Saved([memory EXCEPT
                                              ![key][i] = [entry EXCEPT !.id = entry_id]])
                         /\ last' = [op |-> op, status |-> 200, id |-> entry_id,
                                     missing |-> FALSE]
                ELSE /\ file' = file
                     /\ last' = [op |-> op, status |-> 404, id |-> entry_id,
                                 missing |-> TRUE]

\* The shape of delete_product, delete_faq, delete_policy and delete_knowledge: the
\* list is filtered and saved, and the answer is the "deleted" message.
DeleteEntry(op, key, entry_id) ==
    LET memory == load_memory
    IN  /\ UNCHANGED clock
        /\ IF key \notin DOMAIN memory
           THEN /\ file' = file
                /\ last' = [op |-> op, status |-> 500, id |-> entry_id, missing |-> TRUE]
           ELSE /\ file' = Saved([memory EXCEPT
                                     ![key] = SelectSeq(@, LAMBDA e : e.id # entry_id)])
                /\ last' = [op |-> op, status |-> 200, id |-> entry_id,
                            missing |-> ~HasId(memory[key], entry_id)]

add_product(product) == AddEntry("add_product", "products", product)

update_product(product_id, product) ==
    UpdateEntry("update_product", "products", product_id, product)

delete_product(product_id) == DeleteEntry("delete_product", "products", product_id)

add_faq(faq) == AddEntry("add_faq", "faqs", faq)

update_faq(faq_id, faq) == UpdateEntry("update_faq", "faqs", faq_id, faq)

delete_faq(faq_id) == DeleteEntry("delete_faq", "faqs", faq_id)

add_policy(policy) == AddEntry("add_policy", "policies", policy)

update_policy(policy_id, policy) ==
    UpdateEntry("update_policy", "policies", policy_id, policy)

delete_policy(policy_id) == DeleteEntry("delete_policy", "policies", policy_id)

add_knowledge(knowledge) == AddEntry("add_knowledge", "custom_knowledge", knowledge)

update_knowledge(knowledge_id, knowledge) ==
    UpdateEntry("update_knowledge", "custom_knowledge", knowledge_id, knowledge)

delete_knowledge(knowledge_id) ==
    DeleteEntry("delete_knowledge", "custom_knowledge", knowledge_id)

\* PUT /api/store-info: the fields the request sets to a non-null value overwrite.
update_store_info(store_info) ==
    LET memory == load_memory
        current_info == Get(memory, "store_info", EmptyDict)
        merged == [k \in DOMAIN current_info \cup
                        {f \in DOMAIN store_info : store_info[f] # NoneStr} |->
                      IF k \in DOMAIN store_info /\ store_info[k] # NoneStr
                      THEN store_info[k] ELSE current_info[k]]
        saved == [k \in DOMAIN memory \cup {"store_info"} |->
                     IF k = "store_info" THEN merged ELSE memory[k]]
    IN  /\ file' = Saved(saved)
        /\ last' = [op |-> "update_store_info", status |-> 200, id |-> NoId,
                    missing |-> FALSE]
        /\ UNCHANGED clock

\* POST /api/memory/import: the request body is saved as it is.
import_memory(data) ==
    /\ file' = Saved(data)
    /\ last' = [op |-> "import_memory", status |-> 200, id |-> NoId, missing |-> FALSE]
    /\ UNCHANGED clock

\* The wall clock is set back (a clock step, the end of daylight saving time).
clock_set_back ==
    /\ \E t \in 0..(clock - 1) : clock' = t
    /\ UNCHANGED <<file, last>>

(***************************************************************************)
(* Request bodies, as the pydantic models dump them.                       *)
(***************************************************************************)
ProductBodies ==
    {[id |-> NoId, name |-> <<"M","u","g">>, description |-> <<"B","l","u","e"," ","c","u","p">>, price |-> 12050,
      category |-> <<>>, features |-> <<>>, in_stock |-> TRUE],
     [id |-> NoId, name |-> <<"T","e","a">>, description |-> <<"G","o","o","d"," ","l","e","a","f">>, price |-> 4500,
      category |-> <<"D","r","i","n","k","s">>, features |-> NoneList, in_stock |-> TRUE]}

ProductUpdates ==
    {[id |-> NoId, name |-> <<"P","o","t">>, description |-> <<"M","u","g"," ","s","e","t">>, price |-> 999,
      category |-> <<>>, features |-> <<<<"H","o","t">>>>, in_stock |-> FALSE]}

FaqBodies ==
    {[id |-> NoId, question |-> <<"S","h","i","p","p","i","n","g"," ","c","o","s","t","?">>, answer |-> <<"F","r","e","e">>, category |-> <<>>]}

FaqUpdates ==
    {[id |-> NoId, question |-> <<"R","e","t","u","r","n"," ","c","o","s","t","?">>, answer |-> <<"Z","e","r","o">>, category |-> <<>>]}

PolicyBodies ==
    {[id |-> NoId, title |-> <<"R","e","t","u","r","n"," ","P","o","l","i","c","y">>, content |-> <<"3","0"," ","d","a","y","s">>,
      type |-> <<"g","e","n","e","r","a","l">>]}

PolicyUpdates ==
    {[id |-> NoId, title |-> <<"P","r","i","v","a","c","y">>, content |-> <<"N","o"," ","s","p","a","m">>, type |-> <<"g","e","n","e","r","a","l">>]}

KnowledgeBodies ==
    {[id |-> NoId, title |-> <<"H","o","u","r","s">>, content |-> <<"O","p","e","n"," ","l","a","t","e">>, keywords |-> <<>>]}

KnowledgeUpdates ==
    {[id |-> NoId, title |-> <<"G","i","f","t">>, content |-> <<"M","u","g"," ","w","r","a","p">>, keywords |-> NoneList]}

StoreInfoBodies ==
    {[name |-> <<"A","c","m","e">>, contact_email |-> NoneStr]}

\* Imported documents: one whose two products carry the same id, one with a single
\* category.
ImportDocs ==
    {[DefaultMemory EXCEPT !.products =
          <<[ProductAt(1) EXCEPT !.id = 0], [ProductAt(2) EXCEPT !.id = 0]>>],
     OnlyDoc("faqs", 1)}

\* The ids a path can name: every reading of the clock.
PathIds == 0..MaxClock

ChatQueries == {<<"h","i">>, <<"m","u","g">>, <<"a","n","y"," ","p","r","o","d","u","c","t","s","?">>}

(***************************************************************************)
(* Spec: the server, from a missing memory.json.                           *)
(***************************************************************************)
Init ==
    /\ file = NoFile
    /\ clock = 0
    /\ last = Idle

Next ==
    \/ \E message \in ChatQueries : chat(message)
    \/ \E product \in ProductBodies : add_product(product)
    \/ \E product_id \in PathIds, product \in ProductUpdates :
           update_product(product_id, product)
    \/ \E product_id \in PathIds : delete_product(product_id)
    \/ \E faq \in FaqBodies : add_faq(faq)
    \/ \E faq_id \in PathIds, faq \in FaqUpdates : update_faq(faq_id, faq)
    \/ \E faq_id \in PathIds : delete_faq(faq_id)
    \/ \E policy \in PolicyBodies : add_policy(policy)
    \/ \E policy_id \in PathIds, policy \in PolicyUpdates :
           update_policy(policy_id, policy)
    \/ \E policy_id \in PathIds : delete_policy(policy_id)
    \/ \E knowledge \in KnowledgeBodies : add_knowledge(knowledge)
    \/ \E knowledge_id \in PathIds, knowledge \in KnowledgeUpdates :
           update_knowledge(knowledge_id, knowledge)
    \/ \E knowledge_id \in PathIds : delete_knowledge(knowledge_id)
    \/ \E store_info \in StoreInfoBodies : update_store_info(store_info)
    \/ \E data \in ImportDocs : import_memory(data)
    \/ clock_set_back

Spec == Init /\ [][Next]_vars

(***************************************************************************)
(* Properties.  The word sets and the canned messages are spelled here as  *)
(* the statements give them, apart from the definitions of the model.      *)
(***************************************************************************)
Answered == last.op = "chat" /\ last.status = 200

\* The document the chat handler loaded.
Loaded == IF last.before.exists THEN last.before.data ELSE DefaultMemory

Words == query_words(last.query)

StatedGreetingSet ==
    {<<"h","i">>, <<"h","e","l","l","o">>, <<"h","e","y">>, <<"g","r","e","e","t","i","n","g","s">>, <<"g","o","o","d">>, <<"m","o","r","n","i","n","g">>, <<"a","f","t","e","r","n","o","o","n">>, <<"e","v","e","n","i","n","g">>}

ComposerGreetingSet == {<<"h","i">>, <<"h","e","l","l","o">>, <<"h","e","y">>, <<"g","r","e","e","t","i","n","g","s">>}

StatedSignalSet ==
    {<<"s","h","i","p","p","i","n","g">>, <<"r","e","t","u","r","n">>, <<"p","r","o","d","u","c","t">>, <<"p","r","i","c","e">>, <<"p","o","l","i","c","y">>, <<"o","r","d","e","r">>, <<"b","u","y">>, <<"h","e","l","p">>,
     <<"s","u","p","p","o","r","t">>}

StatedProductKeywords ==
    {<<"p","r","o","d","u","c","t">>, <<"p","r","o","d","u","c","t","s">>, <<"i","t","e","m">>, <<"i","t","e","m","s">>, <<"b","u","y">>, <<"s","e","l","l">>, <<"s","e","l","l","i","n","g">>, <<"o","f","f","e","r">>,
     <<"c","a","t","a","l","o","g">>, <<"c","a","t","a","l","o","g","u","e">>, <<"i","n","v","e","n","t","o","r","y">>, <<"m","e","r","c","h","a","n","d","i","s","e">>}

PureGreeting == Words \cap ComposerGreetingSet # {} /\ Words \cap StatedSignalSet = {}

\* The store name of a document, "our store" when it has none.
StoreNameOf(memory) ==
    IF "store_info" \in DOMAIN memory /\ "name" \in DOMAIN memory.store_info
    THEN memory.store_info.name ELSE <<"o","u","r"," ","s","t","o","r","e">>

WelcomeMessage(store_name) ==
    <<"Hello! Welcome to ">> \o store_name
        \o <<"! [wave] How can I help you today? I can assist you with:", "\n",
             "[bullet] Product information and recommendations", "\n",
             "[bullet] Pricing and availability", "\n",
             "[bullet] Shipping and return policies", "\n",
             "[bullet] General questions about our store">>

\* The contact email of a document, "support@store.com" when it has none.
ContactEmailOf(memory) ==
    IF "store_info" \in DOMAIN memory /\ "contact_email" \in DOMAIN memory.store_info
    THEN memory.store_info.contact_email ELSE <<"s","u","p","p","o","r","t","@","s","t","o","r","e",".","c","o","m">>

FallbackMessage(contact_email) ==
    <<"I'm sorry, I couldn't find specific information about that in my knowledge base.",
      "\n", "Here's what I can help you with:",
      "\n", "[bullet] Product information and pricing",
      "\n", "[bullet] Shipping and delivery questions",
      "\n", "[bullet] Return and refund policies",
      "\n", "[bullet] General store inquiries",
      "\n", "\nFor more specific questions, please contact us at ">> \o contact_email

Count(s, x) == Cardinality({i \in DOMAIN s : s[i] = x})

\* The places of the separator lines of a response.
Separators(response) == {j \in DOMAIN response : response[j] = "\n---\n"}

\* How many pieces x the k-th section of the response has, the sections being what
\* the separator lines cut the response into.
CountInSection(response, k, x) ==
    LET separators == Separators(response)
    IN  Cardinality({i \in DOMAIN response :
                        /\ response[i] = x
                        /\ Cardinality({j \in separators : j < i}) + 1 = k})

Matched == <<Len(last.results.products), Len(last.results.faqs),
             Len(last.results.policies), Len(last.results.custom_knowledge)>>

\* The place, among the sections, of the c-th category (1 products, 2 FAQs,
\* 3 policies, 4 custom knowledge) when it matched something.
SectionIndex(c) == Cardinality({d \in 1..c : Matched[d] > 0})

\* The entries the section of category c shows: the card or the bullets of the
\* products, the questions, the titles of the policies and of the custom entries.
Rendered(c) ==
    IF Matched[c] = 0 THEN 0
    ELSE LET k == SectionIndex(c)
         IN  CASE c = 1 -> CountInSection(last.response, k, "[memo] ")
                               + CountInSection(last.response, k, "[bullet] **")
               [] c = 2 -> CountInSection(last.response, k, "**Q: ")
               [] OTHER -> CountInSection(last.response, k, "**") \div 2

\* What the response shows in all: nothing beyond the matched categories' sections.
RenderedInAll ==
    Count(last.response, "[memo] ") + Count(last.response, "[bullet] **")
        + Count(last.response, "**Q: ")

StatedLimit == <<5, 3, 2, 2>>

\* C1, as stated: a query with a word of the eight-word greeting set and no
\* non-greeting-signal word is answered with the canned welcome message naming the
\* store and four help lines, whatever was matched.
C1_Stated ==
    (Answered /\ Words \cap StatedGreetingSet # {} /\ Words \cap StatedSignalSet = {})
        => last.response = WelcomeMessage(StoreNameOf(Loaded))

\* C1, amended: a query with a word of {hi, hello, hey, greetings} and no
\* non-greeting-signal word is answered with exactly the canned welcome message naming
\* the document's store ("our store" when it has no name) and the four help lines,
\* whatever the matcher matched.
C1_PureGreetingWelcome ==
    (Answered /\ PureGreeting) => last.response = WelcomeMessage(StoreNameOf(Loaded))

\* A pure greeting for which the matcher matched FAQs and store info, answered.
C1_Witness ==
    /\ Answered /\ PureGreeting
    /\ Len(last.results.faqs) > 0
    /\ TruthyDict(last.results.store_info)
    /\ last.response = WelcomeMessage(<<"A","c","m","e">>)

\* C2: a query with a greeting word and a non-greeting-signal word is not answered by
\* the pure-greeting branch, and each of the first two policies the matcher matched
\* has its title line and its content in the response.
C2_GreetingWithSignal ==
    (Answered /\ Words \cap StatedGreetingSet # {} /\ Words \cap StatedSignalSet # {})
        => /\ last.response[1] # "Hello! Welcome to "
           /\ \A i \in 1..Min(2, Len(last.results.policies)) :
                  Contains(last.response,
                           <<"**">> \o last.results.policies[i].title \o <<"**", "\n">>
                               \o last.results.policies[i].content)

\* "hi, what's your return policy?" on a document whose policies match.
C2_Witness ==
    /\ Answered
    /\ last.query = <<"h","i",","," ","w","h","a","t","'","s"," ","y","o","u","r"," ","r","e","t","u","r","n"," ","p","o","l","i","c","y","?">>
    /\ Len(last.results.policies) >= 2
    /\ Contains(last.response, <<"**">> \o <<"R","e","t","u","r","n"," ","P","o","l","i","c","y">> \o <<"**", "\n">> \o <<"3","0"," ","d","a","y","s">>)

\* C3: a query with a product-query keyword whose meaningful words are all such
\* keywords matches every product of the document, and more than one product is
\* listed in the bulleted format, not as the single-product card.
C3_GeneralProductQuery ==
    (/\ Answered
     /\ Words \cap StatedProductKeywords # {}
     /\ meaningful_words(last.query) \ StatedProductKeywords = {})
        => /\ last.results.products = Get(Loaded, "products", <<>>)
           /\ Len(last.results.products) > 1
                  => /\ last.response[1] = "Here are some products that might interest you:"
                     /\ Count(last.response, "[bullet] **")
                            = Min(5, Len(last.results.products))
                     /\ Count(last.response, "[memo] ") = 0

\* The query "products" on a document of three products.
C3_Witness ==
    /\ Answered
    /\ last.query = <<"p","r","o","d","u","c","t","s">>
    /\ Len(Get(Loaded, "products", <<>>)) = 3
    /\ Len(last.results.products) = 3
    /\ Count(last.response, "[bullet] **") = 3

\* C4, as stated: for every query, k matched entries of a category are rendered as
\* min(k, limit) entries, the limits being 5 products, 3 FAQs, 2 policies and 2
\* custom-knowledge entries.
C4_Stated ==
    Answered => \A c \in 1..4 : Rendered(c) = Min(Matched[c], StatedLimit[c])

\* C4, amended: for every query that is not a pure greeting, k matched entries of a
\* category are rendered as min(k, limit) entries (5 products, 3 FAQs, 2 policies,
\* 2 custom-knowledge entries), and nothing else is rendered as an entry.
C4_Truncation ==
    (Answered /\ ~PureGreeting)
        => /\ \A c \in 1..4 : Rendered(c) = Min(Matched[c], StatedLimit[c])
           /\ RenderedInAll = Min(Matched[1], 5) + Min(Matched[2], 3)

\* More matches than the limit in every category.
C4_Witness ==
    /\ Answered /\ ~PureGreeting
    /\ Matched[1] > 5 /\ Matched[2] > 3 /\ Matched[3] > 2 /\ Matched[4] > 2
    /\ Rendered(1) = 5 /\ Rendered(2) = 3 /\ Rendered(3) = 2 /\ Rendered(4) = 2

C6_NoFailure == last.op = "chat" => last.status = 200

\* C7: within each category of the persisted document no two entries have the same
\* id.
C7_UniqueIds ==
    \A key \in Categories \cap DOMAIN load_memory :
        \A i, j \in DOMAIN load_memory[key] :
            i # j => load_memory[key][i].id # load_memory[key][j].id

\* C8: a chat leaves the persisted document and the loaded document object as they
\* were: nothing is saved and nothing of the document is changed in place.
C8_ChatIsReadOnly ==
    last.op = "chat" => file = last.before /\ last.memory = Loaded

\* A general product query answered: results["products"] is the document's own list.
C8_Witness ==
    /\ Answered
    /\ is_general_product_query(Words, meaningful_words(last.query))
    /\ Len(last.results.products) > 1
    /\ last.results.products = Loaded.products
    /\ file = last.before

RECURSIVE AlnumRunsFrom(_, _, _)
\* The maximal runs of alphanumeric characters of s.
AlnumRunsFrom(s, i, cur) ==
    IF i > Len(s)
    THEN IF cur = <<>> THEN {} ELSE {cur}
    ELSE IF IsAlnum(s[i])
         THEN AlnumRunsFrom(s, i + 1, Append(cur, s[i]))
         ELSE (IF cur = <<>> THEN {} ELSE {cur}) \cup AlnumRunsFrom(s, i + 1, <<>>)

\* A query made only of stop words, whitespace and punctuation.
OnlyStopWords(query) == AlnumRunsFrom(Lower(query), 1, <<>>) \subseteq stop_words

\* C9: the meaningful-word set of a query made only of stop words, whitespace and
\* punctuation is empty.
C9_StopWordsOnly ==
    (last.op = "chat" /\ OnlyStopWords(last.query)) => meaningful_words(last.query) = {}

\* C10: an update or a delete addressed to an id that no entry of the category has is
\* answered with "not found", not with a success.
C10_NotFound ==
    (/\ last.op \in {"update_product", "delete_product", "update_faq", "delete_faq",
                     "update_policy", "delete_policy", "update_knowledge",
                     "delete_knowledge"}
     /\ last.missing)
        => last.status = 404
====
